---- MODULE Spec2Model ----
(***************************************************************************)
(* Yusr backend: the HTTP handlers (Flask app.py, FastAPI routers/ and     *)
(* main.py) and the OpenAI adapter functions of services/openai_service.py *)
(* as a state machine.  A request slot r runs one handler invocation; the  *)
(* local upload folder is the only state the handlers share.               *)
(***************************************************************************)
EXTENDS Integers, Sequences, FiniteSets, TLC

\* ------------------------------------------------------------------ bounds
NumReq == 2       \* request slots that may run concurrently
MaxPolls == 2     \* runs.retrieve calls one send_message may issue in the model
MaxLen == 5       \* characters of a page text given to the diacritic pass

Req == 1..NumReq

\* ------------------------------------------------------- python-level values
None == "<None>"                     \* Python None / an absent field
Truthy(v) == v # None /\ v # ""      \* bool(v) for an Optional[str]

\* Filenames and extensions are sequences of characters.
Lower(c) == CASE c = "P" -> "p" [] c = "D" -> "d" [] c = "F" -> "f" [] OTHER -> c
LowerSeq(s) == [i \in 1..Len(s) |-> Lower(s[i])]
HasDot(s) == \E i \in 1..Len(s) : s[i] = "."
LastDot(s) == CHOOSE i \in 1..Len(s) : s[i] = "." /\ \A j \in (i+1)..Len(s) : s[j] # "."
\* filename.rsplit(".", 1)[-1] and [0], for a filename that holds a dot
AfterLastDot(s) == SubSeq(s, LastDot(s) + 1, Len(s))
BeforeLastDot(s) == SubSeq(s, 1, LastDot(s) - 1)

EXT_pdf == <<"p", "d", "f">>
EXT_txt == <<"t", "x", "t">>
EXT_webm == <<"w", "e", "b", "m">>
EXT_wav == <<"w", "a", "v">>
EXT_mp3 == <<"m", "p", "3">>
EXT_ogg == <<"o", "g", "g">>
EXT_mp4 == <<"m", "p", "4">>
EXT_m4a == <<"m", "4", "a">>

ALLOWED_EXTENSIONS == {EXT_pdf, EXT_txt, EXT_webm, EXT_wav, EXT_mp3, EXT_ogg}
_ALLOWED_DOC_EXTENSIONS == {EXT_pdf, EXT_txt}
_ALLOWED_AUDIO_EXTENSIONS == {EXT_webm, EXT_wav, EXT_mp3, EXT_ogg, EXT_mp4, EXT_m4a}

allowed_file(filename) ==
    HasDot(filename) /\ LowerSeq(AfterLastDot(filename)) \in ALLOWED_EXTENSIONS

_extension(filename) ==
    IF HasDot(filename) THEN LowerSeq(AfterLastDot(filename)) ELSE <<>>

\* werkzeug's secure_filename on names of letters, digits and dots: such
\* characters are kept, leading and trailing dots are stripped.
RECURSIVE StripDots(_)
StripDots(s) ==
    IF s = <<>> THEN s
    ELSE IF Head(s) = "." THEN StripDots(Tail(s))
    ELSE IF s[Len(s)] = "." THEN StripDots(SubSeq(s, 1, Len(s) - 1))
    ELSE s
secure_filename(filename) == StripDots(filename)

\* The client filenames the requests draw from.
Names == { <<>>,
           <<"a">>,
           <<"a", ".", "p", "d", "f">>,
           <<"a", ".", "P", "D", "F">>,
           <<"a", ".", "w", "e", "b", "m">>,
           <<"a", ".", "m", "p", "4">>,
           <<"a", ".", "e", "x", "e">> }

\* ------------------------------------------------------------- file system
\* The bytes request r uploads as a file, and the bytes of its text field.
FileBytes(r) == <<"file", r>>
TextBytes(r) == <<"text", r>>
ReqTag(r) == <<"r1", "r2", "r3", "r4">>[r]

UPLOAD_FOLDER == <<"tmp", "/">>
NoPath == <<>>
\* os.path.join(app.config['UPLOAD_FOLDER'], filename)
UploadPath(filename) == UPLOAD_FOLDER \o filename
\* tempfile.NamedTemporaryFile: a name no other file has
TempPath(r, ext) == UPLOAD_FOLDER \o <<"tmp_", ReqTag(r), ".">> \o ext

Exists(files, p) == \E f \in files : f.path = p
Write(files, p, b) == {f \in files : f.path # p} \cup {[path |-> p, bytes |-> b]}
Unlink(files, p) == {f \in files : f.path # p}
Read(files, p) == (CHOOSE f \in files : f.path = p).bytes

VARIABLES
    pc,        \* pc[r]: where request r's handler stands
    req,       \* req[r]: the request (server, endpoint, input)
    path,      \* path[r]: the handler's audio_path / pdf_file_path local
    fs,        \* the files of the local upload/temp folder
    log,       \* log[r]: the remote calls request r has issued, in order
    exc,       \* exc[r]: the exception in flight in r's handler (NoExc if none)
    resp,      \* resp[r]: the HTTP status returned (0 while running)
    result,    \* result[r]: the value the service call returned
    run,       \* run[r]: send_message's run.status local
    polls,     \* polls[r]: runs.retrieve calls issued by r
    frame,     \* frame[r]: text_content, file_name and the ids the service holds
    pdf,       \* pdf[r]: extract_pdf's locals (body read, doc, parts)
    xf         \* the text the diacritic pass is applied to, and its outputs

vars == <<pc, req, path, fs, log, exc, resp, result, run, polls, frame, pdf, xf>>

NoReq == [server |-> "-", ep |-> "-", in |-> <<>>]
NoResult == <<>>
NoExc == <<>>
NoId == <<>>
DOCUMENT == <<"document">>           \* the default file_name
NoFrame == [text_content |-> None, file_name |-> DOCUMENT, assistant |-> NoId,
            file_id |-> NoId, vector_store |-> NoId, thread |-> NoId]

\* extract_pdf's locals: whether file.read() was awaited, whether fitz.open
\* was called, the state of doc, and the parts list.
NoPdf == [read |-> FALSE, parsed |-> FALSE, doc |-> "none", parts |-> <<>>]
\* No text is under the diacritic pass.
NoXf == [phase |-> "none", raw |-> <<>>, once |-> <<>>, twice |-> <<>>]

InitRequests ==
    /\ pc = [r \in Req |-> "idle"]
    /\ req = [r \in Req |-> NoReq]
    /\ path = [r \in Req |-> NoPath]
    /\ fs = {}
    /\ log = [r \in Req |-> <<>>]
    /\ exc = [r \in Req |-> NoExc]
    /\ resp = [r \in Req |-> 0]
    /\ result = [r \in Req |-> NoResult]
    /\ run = [r \in Req |-> ""]
    /\ polls = [r \in Req |-> 0]
    /\ frame = [r \in Req |-> NoFrame]
    /\ pdf = [r \in Req |-> NoPdf]

Init == InitRequests /\ xf = NoXf

\* A remote call as the remote side sees it: the operation, its arguments and
\* what it answered (Raised when the call raised).
Raised == <<"raised">>
Call(op, arg, ret) == [op |-> op, arg |-> arg, ret |-> ret]
\* The id the remote side gives the object request r's next call creates.
NewId(kind, r) == <<kind, ReqTag(r), Len(log[r]) + 1>>

\* The handler of r ends with HTTP status s.
Respond(r, s) ==
    /\ pc' = [pc EXCEPT ![r] = "done"]
    /\ resp' = [resp EXCEPT ![r] = s]

\* A request arrives: the handler of r starts on input `in`.
Arrive(r, server, ep, in) ==
    /\ pc[r] = "idle"
    /\ req' = [req EXCEPT ![r] = [server |-> server, ep |-> ep, in |-> in]]

\* ------------------------------------------------ services/openai_service.py
\* transcribe_audio: open the file at p, send it to the remote transcription
\* call, return the transcript; any exception is printed and re-raised.
transcribe_audio(r, p) ==
    IF ~Exists(fs, p)
    THEN \* open() raises before any remote call
         /\ exc' = [exc EXCEPT ![r] = <<"FileNotFoundError">>]
         /\ UNCHANGED <<log, result>>
    ELSE \E ok \in BOOLEAN :
           IF ok
           THEN /\ log' = [log EXCEPT ![r] = Append(@,
                     Call("audio.transcriptions.create", Read(fs, p), <<"transcript">>))]
                /\ result' = [result EXCEPT ![r] = <<"transcript">>]
                /\ exc' = exc
           ELSE /\ log' = [log EXCEPT ![r] = Append(@,
                     Call("audio.transcriptions.create", Read(fs, p), Raised))]
                /\ exc' = [exc EXCEPT ![r] = <<"APIError">>]
                /\ result' = result

\* ------------------------------------------------- transcribe (Flask, app.py)
TranscribeInputs ==
    {[hasAudio |-> FALSE, fname |-> <<>>]} \cup
    {[hasAudio |-> TRUE, fname |-> n] : n \in Names}

\* validation, then audio_file.save(audio_path)
FlaskTranscribeBegin(r) ==
    \E in \in TranscribeInputs :
      /\ Arrive(r, "flask", "transcribe", in)
      /\ IF ~in.hasAudio \/ in.fname = <<>> \/ ~allowed_file(in.fname)
         THEN /\ Respond(r, 400)
              /\ UNCHANGED <<path, fs>>
         ELSE /\ path' = [path EXCEPT ![r] = UploadPath(secure_filename(in.fname))]
              /\ fs' = Write(fs, UploadPath(secure_filename(in.fname)), FileBytes(r))
              /\ pc' = [pc EXCEPT ![r] = "ft_call"]
              /\ resp' = resp
      /\ UNCHANGED <<log, exc, result, run, polls, frame, pdf, xf>>

\* try: text = transcribe_audio(audio_path, ...); the finally block follows
\* on both the normal and the exceptional exit.
FlaskTranscribeCall(r) ==
    /\ pc[r] = "ft_call"
    /\ transcribe_audio(r, path[r])
    /\ pc' = [pc EXCEPT ![r] = "ft_exists"]
    /\ UNCHANGED <<req, path, fs, resp, run, polls, frame, pdf, xf>>

\* finally: if os.path.exists(audio_path):
FlaskTranscribeExists(r) ==
    /\ pc[r] = "ft_exists"
    /\ pc' = [pc EXCEPT ![r] = IF Exists(fs, path[r]) THEN "ft_unlink" ELSE "ft_ret"]
    /\ UNCHANGED <<req, path, fs, log, exc, resp, result, run, polls, frame, pdf, xf>>

\* os.unlink(audio_path); an exception of unlink is printed and dropped
FlaskTranscribeUnlink(r) ==
    /\ pc[r] = "ft_unlink"
    /\ fs' = Unlink(fs, path[r])
    /\ pc' = [pc EXCEPT ![r] = "ft_ret"]
    /\ UNCHANGED <<req, path, log, exc, resp, result, run, polls, frame, pdf, xf>>

\* return jsonify({"text": text}), 200 / except Exception: 500
FlaskTranscribeReturn(r) ==
    /\ pc[r] = "ft_ret"
    /\ Respond(r, IF exc[r] = NoExc THEN 200 ELSE 500)
    /\ UNCHANGED <<req, path, fs, log, exc, result, run, polls, frame, pdf, xf>>

\* ------------------------------------- transcribe (FastAPI, routers/transcribe.py)
\* audio is a required File(...): a request without it is rejected by the
\* framework's validation (422) before the handler runs.
ApiTranscribeBegin(r) ==
    \E in \in TranscribeInputs :
      /\ Arrive(r, "fastapi", "transcribe", in)
      /\ IF ~in.hasAudio
         THEN /\ Respond(r, 422)
              /\ UNCHANGED <<path, fs>>
         ELSE IF _extension(in.fname) \notin _ALLOWED_AUDIO_EXTENSIONS
         THEN /\ Respond(r, 400)
              /\ UNCHANGED <<path, fs>>
         ELSE /\ path' = [path EXCEPT ![r] = TempPath(r, _extension(in.fname))]
              /\ fs' = Write(fs, TempPath(r, _extension(in.fname)), FileBytes(r))
              /\ pc' = [pc EXCEPT ![r] = "at_call"]
              /\ resp' = resp
      /\ UNCHANGED <<log, exc, result, run, polls, frame, pdf, xf>>

ApiTranscribeCall(r) ==
    /\ pc[r] = "at_call"
    /\ transcribe_audio(r, path[r])
    /\ pc' = [pc EXCEPT ![r] = "at_exists"]
    /\ UNCHANGED <<req, path, fs, resp, run, polls, frame, pdf, xf>>

ApiTranscribeExists(r) ==
    /\ pc[r] = "at_exists"
    /\ pc' = [pc EXCEPT ![r] = IF Exists(fs, path[r]) THEN "at_unlink" ELSE "at_ret"]
    /\ UNCHANGED <<req, path, fs, log, exc, resp, result, run, polls, frame, pdf, xf>>

ApiTranscribeUnlink(r) ==
    /\ pc[r] = "at_unlink"
    /\ fs' = Unlink(fs, path[r])
    /\ pc' = [pc EXCEPT ![r] = "at_ret"]
    /\ UNCHANGED <<req, path, log, exc, resp, result, run, polls, frame, pdf, xf>>

\* return {"text": text}; an exception of transcribe_audio propagates (500)
ApiTranscribeReturn(r) ==
    /\ pc[r] = "at_ret"
    /\ Respond(r, IF exc[r] = NoExc THEN 200 ELSE 500)
    /\ UNCHANGED <<req, path, fs, log, exc, result, run, polls, frame, pdf, xf>>

\* ------------------------------ create_assistant_with_file (openai_service.py)
\* One remote call that creates an object: it answers a fresh id, kept in the
\* local `field`, or raises; the except clause prints and re-raises, which
\* ends the function.
SvcCreateCall(r, op, arg, kind, field, next) ==
    \E ok \in BOOLEAN :
      IF ok
      THEN /\ log' = [log EXCEPT ![r] = Append(@, Call(op, arg, NewId(kind, r)))]
           /\ frame' = [frame EXCEPT ![r] = [@ EXCEPT ![field] = NewId(kind, r)]]
           /\ pc' = [pc EXCEPT ![r] = next]
           /\ exc' = exc
      ELSE /\ log' = [log EXCEPT ![r] = Append(@, Call(op, arg, Raised))]
           /\ exc' = [exc EXCEPT ![r] = <<"APIError">>]
           /\ pc' = [pc EXCEPT ![r] = "svc_exit"]
           /\ frame' = frame

\* Mutant of SvcPlainCall: a call that raised is issued again.
SvcPlainCall_Retries(r, op, arg, next) ==
    \E ok \in BOOLEAN :
      IF ok
      THEN /\ log' = [log EXCEPT ![r] = Append(@, Call(op, arg, <<"ok">>))]
           /\ pc' = [pc EXCEPT ![r] = next]
           /\ exc' = exc
      ELSE /\ log' = [log EXCEPT ![r] = Append(@, Call(op, arg, Raised))]
           /\ UNCHANGED <<pc, exc>>

\* One remote call whose answer is not kept.
SvcPlainCall(r, op, arg, next) ==
    \E ok \in BOOLEAN :
      IF ok
      THEN /\ log' = [log EXCEPT ![r] = Append(@, Call(op, arg, <<"ok">>))]
           /\ pc' = [pc EXCEPT ![r] = next]
           /\ exc' = exc
      ELSE /\ log' = [log EXCEPT ![r] = Append(@, Call(op, arg, Raised))]
           /\ exc' = [exc EXCEPT ![r] = <<"APIError">>]
           /\ pc' = [pc EXCEPT ![r] = "svc_exit"]

\* Step 1: assistant = client.beta.assistants.create(...)
Svc_CreateAssistant(r) ==
    /\ pc[r] = "svc1"
    /\ SvcCreateCall(r, "assistants.create", <<>>, "asst", "assistant", "svc2")
    /\ UNCHANGED <<req, path, fs, resp, result, run, polls, pdf, xf>>

\* the text branch's NamedTemporaryFile(suffix='.txt', delete=False)
SvcTempPath(r) == UPLOAD_FOLDER \o <<"tmp_svc_", ReqTag(r), ".">> \o EXT_txt

\* Step 2: upload the PDF at pdf_file_path if it exists, else the text
\* (written to a temporary file that the finally clause unlinks), else raise.
Svc_UploadFile(r) ==
    /\ pc[r] = "svc2"
    /\ IF path[r] # NoPath /\ Exists(fs, path[r])
       THEN /\ SvcCreateCall(r, "files.create", Read(fs, path[r]), "file", "file_id", "svc3")
            /\ fs' = fs
       ELSE IF Truthy(frame[r].text_content)
       THEN /\ SvcCreateCall(r, "files.create",
                             Read(Write(fs, SvcTempPath(r), TextBytes(r)), SvcTempPath(r)),
                             "file", "file_id", "svc3")
            /\ fs' = Unlink(Write(fs, SvcTempPath(r), TextBytes(r)), SvcTempPath(r))
       ELSE /\ exc' = [exc EXCEPT ![r] = <<"ValueError">>]
            /\ pc' = [pc EXCEPT ![r] = "svc_exit"]
            /\ UNCHANGED <<log, frame, fs>>
    /\ UNCHANGED <<req, path, resp, result, run, polls, pdf, xf>>

\* Step 3: vector_store = client.vector_stores.create(name=...)
Svc_CreateVectorStore(r) ==
    /\ pc[r] = "svc3"
    /\ SvcCreateCall(r, "vector_stores.create", frame[r].file_name, "vs", "vector_store", "svc4")
    /\ UNCHANGED <<req, path, fs, resp, result, run, polls, pdf, xf>>

\* client.vector_stores.files.create(vector_store_id=..., file_id=...)
Svc_AttachFile(r) ==
    /\ pc[r] = "svc4"
    /\ SvcPlainCall(r, "vector_stores.files.create",
                    <<frame[r].vector_store, frame[r].file_id>>, "svc5")
    /\ UNCHANGED <<req, path, fs, resp, result, run, polls, frame, pdf, xf>>

\* Step 4: client.beta.assistants.update(assistant_id=..., tool_resources=...)
Svc_UpdateAssistant(r) ==
    /\ pc[r] = "svc5"
    /\ SvcPlainCall(r, "assistants.update",
                    <<frame[r].assistant, frame[r].vector_store>>, "svc6")
    /\ UNCHANGED <<req, path, fs, resp, result, run, polls, frame, pdf, xf>>

\* Mutant of SvcResult: the vector store's id is returned as the file's id.
SvcResult_WrongFileId(f) ==
    [assistant_id |-> f.assistant, thread_id |-> f.thread,
     vector_store_id |-> f.vector_store, file_id |-> f.vector_store]

\* The dict create_assistant_with_file returns.
SvcResult(f) ==
    [assistant_id |-> f.assistant, thread_id |-> f.thread,
     vector_store_id |-> f.vector_store, file_id |-> f.file_id]

\* Step 5: thread = client.beta.threads.create(); return the four ids
Svc_CreateThread(r) ==
    /\ pc[r] = "svc6"
    /\ SvcCreateCall(r, "threads.create", <<>>, "thread", "thread", "svc_exit")
    /\ result' = [result EXCEPT ![r] =
                     IF exc'[r] = NoExc THEN SvcResult(frame'[r]) ELSE @]
    /\ UNCHANGED <<req, path, fs, resp, run, polls, pdf, xf>>

\* ------------------------------------------------------- assistant/create
\* A create request is multipart/form data (an optional 'pdf' file part and an
\* optional 'text' field) or a JSON body (an object, with or without 'text',
\* or some other JSON value).
Texts == {None, "", "T"}
CreateInputs ==
    {[kind |-> "form", hasPdf |-> FALSE, fname |-> <<>>, text |-> t, dict |-> FALSE]
        : t \in Texts} \cup
    {[kind |-> "form", hasPdf |-> TRUE, fname |-> n, text |-> t, dict |-> FALSE]
        : n \in Names, t \in {None, "T"}} \cup
    {[kind |-> "json", hasPdf |-> FALSE, fname |-> <<>>, text |-> t, dict |-> TRUE]
        : t \in Texts} \cup
    {[kind |-> "json", hasPdf |-> FALSE, fname |-> <<>>, text |-> None, dict |-> FALSE]}

\* filename.rsplit('.', 1)[0]
RsplitHead(s) == IF HasDot(s) THEN BeforeLastDot(s) ELSE s

\* create_assistant of app.py up to the call of create_assistant_with_file
FlaskCreateBegin(r) ==
    \E in \in CreateInputs :
      /\ Arrive(r, "flask", "create", in)
      /\ IF in.hasPdf
         THEN \* 'pdf' in request.files
              IF in.fname # <<>> /\ allowed_file(in.fname)
              THEN /\ path' = [path EXCEPT ![r] = UploadPath(secure_filename(in.fname))]
                   /\ fs' = Write(fs, UploadPath(secure_filename(in.fname)), FileBytes(r))
                   /\ frame' = [frame EXCEPT ![r].file_name =
                                   RsplitHead(secure_filename(in.fname))]
                   /\ pc' = [pc EXCEPT ![r] = "svc1"]
                   /\ UNCHANGED <<resp, exc>>
              ELSE \* neither text_content nor pdf_file_path is set
                   /\ Respond(r, 400)
                   /\ UNCHANGED <<path, fs, frame, exc>>
         ELSE IF in.kind = "form" /\ in.text # None
         THEN \* 'text' in request.form
              /\ frame' = [frame EXCEPT ![r].text_content = in.text]
              /\ IF Truthy(in.text)
                 THEN pc' = [pc EXCEPT ![r] = "svc1"] /\ resp' = resp
                 ELSE Respond(r, 400)
              /\ UNCHANGED <<path, fs, exc>>
         ELSE IF in.kind = "json"
         THEN \* request.is_json: data.get('text') needs data to be a dict
              IF ~in.dict
              THEN /\ exc' = [exc EXCEPT ![r] = <<"AttributeError">>]
                   /\ Respond(r, 500)
                   /\ UNCHANGED <<path, fs, frame>>
              ELSE /\ frame' = [frame EXCEPT ![r].text_content = in.text]
                   /\ IF Truthy(in.text)
                      THEN pc' = [pc EXCEPT ![r] = "svc1"] /\ resp' = resp
                      ELSE Respond(r, 400)
                   /\ UNCHANGED <<path, fs, exc>>
         ELSE /\ Respond(r, 400)
              /\ UNCHANGED <<path, fs, frame, exc>>
      /\ UNCHANGED <<log, result, run, polls, pdf, xf>>

\* after create_assistant_with_file: an exception goes to the handler's
\* except clause (500); otherwise `if pdf_file_path and os.path.exists(...)`
FlaskCreateAfterService(r) ==
    /\ pc[r] = "svc_exit"
    /\ req[r].server = "flask" /\ req[r].ep = "create"
    /\ IF exc[r] # NoExc
       THEN Respond(r, 500)
       ELSE /\ pc' = [pc EXCEPT ![r] =
                        IF path[r] # NoPath /\ Exists(fs, path[r])
                        THEN "fc_unlink" ELSE "fc_ret"]
            /\ resp' = resp
    /\ UNCHANGED <<req, path, fs, log, exc, result, run, polls, frame, pdf, xf>>

FlaskCreateUnlink(r) ==
    /\ pc[r] = "fc_unlink"
    /\ fs' = Unlink(fs, path[r])
    /\ pc' = [pc EXCEPT ![r] = "fc_ret"]
    /\ UNCHANGED <<req, path, log, exc, resp, result, run, polls, frame, pdf, xf>>

\* return jsonify(result), 201
FlaskCreateReturn(r) ==
    /\ pc[r] = "fc_ret"
    /\ Respond(r, 201)
    /\ UNCHANGED <<req, path, fs, log, exc, result, run, polls, frame, pdf, xf>>

\* create_assistant of routers/assistant.py up to the service call.  The
\* handler declares form parameters only: a JSON body leaves pdf and text None.
ApiCreateBegin(r) ==
    \E in \in CreateInputs :
      /\ Arrive(r, "fastapi", "create", in)
      /\ IF in.hasPdf
         THEN IF _extension(in.fname) \notin _ALLOWED_DOC_EXTENSIONS
              THEN /\ Respond(r, 400)
                   /\ UNCHANGED <<path, fs, frame>>
              ELSE /\ path' = [path EXCEPT ![r] = TempPath(r, _extension(in.fname))]
                   /\ fs' = Write(fs, TempPath(r, _extension(in.fname)), FileBytes(r))
                   /\ frame' = [frame EXCEPT ![r].file_name = RsplitHead(in.fname)]
                   /\ pc' = [pc EXCEPT ![r] = "svc1"]
                   /\ resp' = resp
         ELSE IF in.kind = "form" /\ Truthy(in.text)
         THEN /\ frame' = [frame EXCEPT ![r].text_content = in.text]
              /\ pc' = [pc EXCEPT ![r] = "svc1"]
              /\ UNCHANGED <<path, fs, resp>>
         ELSE /\ Respond(r, 400)
              /\ UNCHANGED <<path, fs, frame>>
      /\ UNCHANGED <<log, exc, result, run, polls, pdf, xf>>

\* finally: if pdf_file_path and os.path.exists(pdf_file_path):
ApiCreateExists(r) ==
    /\ pc[r] = "svc_exit"
    /\ req[r].server = "fastapi" /\ req[r].ep = "create"
    /\ pc' = [pc EXCEPT ![r] =
                 IF path[r] # NoPath /\ Exists(fs, path[r]) THEN "ac_unlink" ELSE "ac_ret"]
    /\ UNCHANGED <<req, path, fs, log, exc, resp, result, run, polls, frame, pdf, xf>>

ApiCreateUnlink(r) ==
    /\ pc[r] = "ac_unlink"
    /\ fs' = Unlink(fs, path[r])
    /\ pc' = [pc EXCEPT ![r] = "ac_ret"]
    /\ UNCHANGED <<req, path, log, exc, resp, result, run, polls, frame, pdf, xf>>

\* return result (201); an exception of the service propagates (500)
ApiCreateReturn(r) ==
    /\ pc[r] = "ac_ret"
    /\ Respond(r, IF exc[r] = NoExc THEN 201 ELSE 500)
    /\ UNCHANGED <<req, path, fs, log, exc, result, run, polls, frame, pdf, xf>>

\* ------------------------------------------- send_message (openai_service.py)
RunStatus == {"queued", "in_progress", "completed", "failed", "expired"}
Pending == {"queued", "in_progress"}
FALLBACK == <<"I couldn't generate a response. Please try again.">>
\* What messages.list may answer: no message, a message without a text block,
\* a message whose first text block holds a reply.
Listings == {"empty", "no_text_block", "text_block"}

\* client.beta.threads.messages.create(thread_id, role="user", content=message)
SM_AddMessage(r) ==
    /\ pc[r] = "sm1"
    /\ SvcPlainCall(r, "messages.create",
                    <<req[r].in.thread_id, req[r].in.message>>, "sm2")
    /\ UNCHANGED <<req, path, fs, resp, result, run, polls, frame, pdf, xf>>

\* run = client.beta.threads.runs.create(thread_id, assistant_id)
SM_CreateRun(r) ==
    /\ pc[r] = "sm2"
    /\ \E st \in RunStatus \cup {"raise"} :
         IF st = "raise"
         THEN /\ log' = [log EXCEPT ![r] = Append(@,
                   Call("runs.create", <<req[r].in.thread_id, req[r].in.assistant_id>>, Raised))]
              /\ exc' = [exc EXCEPT ![r] = <<"APIError">>]
              /\ pc' = [pc EXCEPT ![r] = "svc_exit"]
              /\ run' = run
         ELSE /\ log' = [log EXCEPT ![r] = Append(@,
                   Call("runs.create", <<req[r].in.thread_id, req[r].in.assistant_id>>, <<st>>))]
              /\ run' = [run EXCEPT ![r] = st]
              /\ pc' = [pc EXCEPT ![r] = "sm3"]
              /\ exc' = exc
    /\ UNCHANGED <<req, path, fs, resp, result, polls, frame, pdf, xf>>

\* Mutant of SM_Poll: the loop has a timeout and may give up while the run is
\* still pending.
SM_Poll_Timeout(r) ==
    /\ pc[r] = "sm3"
    /\ run[r] \in Pending
    /\ \/ /\ exc' = [exc EXCEPT ![r] = <<"TimeoutError">>]
          /\ pc' = [pc EXCEPT ![r] = "svc_exit"]
          /\ UNCHANGED <<log, run, polls>>
       \/ /\ polls[r] < MaxPolls
          /\ polls' = [polls EXCEPT ![r] = @ + 1]
          /\ \E st \in RunStatus :
               /\ log' = [log EXCEPT ![r] = Append(@,
                     Call("runs.retrieve", <<req[r].in.thread_id>>, <<st>>))]
               /\ run' = [run EXCEPT ![r] = st]
               /\ UNCHANGED <<pc, exc>>
    /\ UNCHANGED <<req, path, fs, resp, result, frame, pdf, xf>>

\* while run.status in ["queued", "in_progress"]: sleep; run = runs.retrieve(...)
SM_Poll(r) ==
    /\ pc[r] = "sm3"
    /\ run[r] \in Pending
    /\ polls[r] < MaxPolls
    /\ polls' = [polls EXCEPT ![r] = @ + 1]
    /\ \E st \in RunStatus \cup {"raise"} :
         IF st = "raise"
         THEN /\ log' = [log EXCEPT ![r] = Append(@,
                   Call("runs.retrieve", <<req[r].in.thread_id>>, Raised))]
              /\ exc' = [exc EXCEPT ![r] = <<"APIError">>]
              /\ pc' = [pc EXCEPT ![r] = "svc_exit"]
              /\ run' = run
         ELSE /\ log' = [log EXCEPT ![r] = Append(@,
                   Call("runs.retrieve", <<req[r].in.thread_id>>, <<st>>))]
              /\ run' = [run EXCEPT ![r] = st]
              /\ UNCHANGED <<pc, exc>>
    /\ UNCHANGED <<req, path, fs, resp, result, frame, pdf, xf>>

\* Mutant of SM_CheckStatus: only the status "failed" is taken for a failure.
SM_CheckStatus_OnlyFailed(r) ==
    /\ pc[r] = "sm3"
    /\ run[r] \notin Pending
    /\ IF run[r] = "failed"
       THEN /\ exc' = [exc EXCEPT ![r] = <<"Run failed with status: ", run[r]>>]
            /\ pc' = [pc EXCEPT ![r] = "svc_exit"]
       ELSE /\ pc' = [pc EXCEPT ![r] = "sm4"]
            /\ exc' = exc
    /\ UNCHANGED <<req, path, fs, log, resp, result, run, polls, frame, pdf, xf>>

\* the loop has ended: if run.status != "completed": raise Exception(f"Run
\* failed with status: {run.status}. ...")
SM_CheckStatus(r) ==
    /\ pc[r] = "sm3"
    /\ run[r] \notin Pending
    /\ IF run[r] # "completed"
       THEN /\ exc' = [exc EXCEPT ![r] = <<"Run failed with status: ", run[r]>>]
            /\ pc' = [pc EXCEPT ![r] = "svc_exit"]
       ELSE /\ pc' = [pc EXCEPT ![r] = "sm4"]
            /\ exc' = exc
    /\ UNCHANGED <<req, path, fs, log, resp, result, run, polls, frame, pdf, xf>>

\* messages = messages.list(thread_id, order="desc", limit=1); return the
\* first text block of messages.data[0], or the fallback string
SM_ListMessages(r) ==
    /\ pc[r] = "sm4"
    /\ \E ans \in Listings \cup {"raise"} :
         IF ans = "raise"
         THEN /\ log' = [log EXCEPT ![r] = Append(@,
                   Call("messages.list", <<req[r].in.thread_id>>, Raised))]
              /\ exc' = [exc EXCEPT ![r] = <<"APIError">>]
              /\ result' = result
         ELSE /\ log' = [log EXCEPT ![r] = Append(@,
                   Call("messages.list", <<req[r].in.thread_id>>, <<ans>>))]
              /\ result' = [result EXCEPT ![r] =
                               IF ans = "text_block" THEN <<"reply">> ELSE FALLBACK]
              /\ exc' = exc
    /\ pc' = [pc EXCEPT ![r] = "svc_exit"]
    /\ UNCHANGED <<req, path, fs, resp, run, polls, frame, pdf, xf>>

\* ------------------------------------------------------------ chat/message
Fields == {None, "", "x"}
ChatInputs ==
    {[kind |-> k, thread_id |-> None, assistant_id |-> None, message |-> None]
        : k \in {"none", "other"}} \cup
    {[kind |-> "dict", thread_id |-> t, assistant_id |-> a, message |-> m]
        : t \in Fields, a \in Fields, m \in Fields}

\* chat_message of app.py up to the call of send_message.  request.get_json()
\* raises for a body that is missing or not JSON, and data.get raises for a
\* JSON value that is not an object: both land in `except Exception` (500).
FlaskChatBegin(r) ==
    \E in \in ChatInputs :
      /\ Arrive(r, "flask", "chat", in)
      /\ IF in.kind # "dict"
         THEN /\ exc' = [exc EXCEPT ![r] =
                            IF in.kind = "none" THEN <<"HTTPException">>
                            ELSE <<"AttributeError">>]
              /\ Respond(r, 500)
         ELSE IF ~(Truthy(in.thread_id) /\ Truthy(in.assistant_id) /\ Truthy(in.message))
         THEN /\ Respond(r, 400)
              /\ exc' = exc
         ELSE /\ pc' = [pc EXCEPT ![r] = "sm1"]
              /\ UNCHANGED <<resp, exc>>
      /\ UNCHANGED <<path, fs, log, result, run, polls, frame, pdf, xf>>

\* return jsonify({"response": response}), 200 / except Exception: 500
FlaskChatReturn(r) ==
    /\ pc[r] = "svc_exit"
    /\ req[r].server = "flask" /\ req[r].ep = "chat"
    /\ Respond(r, IF exc[r] = NoExc THEN 200 ELSE 500)
    /\ UNCHANGED <<req, path, fs, log, exc, result, run, polls, frame, pdf, xf>>

\* chat_message of routers/chat.py.  The body is a ChatRequest: the framework
\* answers 422 unless it is a JSON object with the three string fields.
ApiChatBegin(r) ==
    \E in \in ChatInputs :
      /\ Arrive(r, "fastapi", "chat", in)
      /\ IF in.kind # "dict" \/ None \in {in.thread_id, in.assistant_id, in.message}
         THEN Respond(r, 422)
         ELSE IF in.thread_id = "" \/ in.assistant_id = "" \/ in.message = ""
         THEN Respond(r, 400)
         ELSE /\ pc' = [pc EXCEPT ![r] = "sm1"]
              /\ resp' = resp
      /\ UNCHANGED <<path, fs, log, exc, result, run, polls, frame, pdf, xf>>

\* return {"response": response}; an exception of send_message propagates
ApiChatReturn(r) ==
    /\ pc[r] = "svc_exit"
    /\ req[r].server = "fastapi" /\ req[r].ep = "chat"
    /\ Respond(r, IF exc[r] = NoExc THEN 200 ELSE 500)
    /\ UNCHANGED <<req, path, fs, log, exc, result, run, polls, frame, pdf, xf>>

\* --------------------------------------------------------------------- tts
WS == {" ", "\t", "\n"}
\* Mutant of Strip: the text is taken as it is.
Strip_Unstripped(s) == s

\* str.strip(): leading and trailing whitespace removed
RECURSIVE Strip(_)
Strip(s) ==
    IF s = <<>> THEN s
    ELSE IF Head(s) \in WS THEN Strip(Tail(s))
    ELSE IF s[Len(s)] \in WS THEN Strip(SubSeq(s, 1, Len(s) - 1))
    ELSE s

TtsTexts == { <<>>, <<" ">>, <<" ", "\n">>, <<"h">>, <<" ", "h", " ">>, <<"h", " ", "i">> }
TtsInputs ==
    {[kind |-> k, hasText |-> FALSE, text |-> <<>>] : k \in {"none", "other", "dict"}} \cup
    {[kind |-> "dict", hasText |-> TRUE, text |-> t] : t \in TtsTexts}

\* synthesize_speech(text, voice): one client.audio.speech.create call; its
\* exception is printed and re-raised.
synthesize_speech(r) ==
    /\ pc[r] = "tts1"
    /\ SvcPlainCall(r, "audio.speech.create", frame[r].text_content, "svc_exit")
    /\ result' = [result EXCEPT ![r] = IF exc'[r] = NoExc THEN <<"audio">> ELSE @]
    /\ UNCHANGED <<req, path, fs, resp, run, polls, frame, pdf, xf>>

\* text_to_speech of app.py: text = (data.get('text') or '').strip()
FlaskTtsBegin(r) ==
    \E in \in TtsInputs :
      /\ Arrive(r, "flask", "tts", in)
      /\ IF in.kind # "dict"
         THEN /\ exc' = [exc EXCEPT ![r] =
                            IF in.kind = "none" THEN <<"HTTPException">>
                            ELSE <<"AttributeError">>]
              /\ Respond(r, 500)
              /\ frame' = frame
         ELSE IF Strip(IF in.hasText THEN in.text ELSE <<>>) = <<>>
         THEN /\ Respond(r, 400)
              /\ UNCHANGED <<exc, frame>>
         ELSE /\ frame' = [frame EXCEPT ![r].text_content = Strip(in.text)]
              /\ pc' = [pc EXCEPT ![r] = "tts1"]
              /\ UNCHANGED <<resp, exc>>
      /\ UNCHANGED <<path, fs, log, result, run, polls, pdf, xf>>

\* return Response(audio_bytes, mimetype='audio/mpeg') / except Exception: 500
FlaskTtsReturn(r) ==
    /\ pc[r] = "svc_exit"
    /\ req[r].server = "flask" /\ req[r].ep = "tts"
    /\ Respond(r, IF exc[r] = NoExc THEN 200 ELSE 500)
    /\ UNCHANGED <<req, path, fs, log, exc, result, run, polls, frame, pdf, xf>>

\* text_to_speech of routers/tts.py; the body is a TTSRequest (422 otherwise)
ApiTtsBegin(r) ==
    \E in \in TtsInputs :
      /\ Arrive(r, "fastapi", "tts", in)
      /\ IF in.kind # "dict" \/ ~in.hasText
         THEN /\ Respond(r, 422)
              /\ frame' = frame
         ELSE IF Strip(in.text) = <<>>
         THEN /\ Respond(r, 400)
              /\ frame' = frame
         ELSE /\ frame' = [frame EXCEPT ![r].text_content = in.text]
              /\ pc' = [pc EXCEPT ![r] = "tts1"]
              /\ resp' = resp
      /\ UNCHANGED <<path, fs, log, exc, result, run, polls, pdf, xf>>

ApiTtsReturn(r) ==
    /\ pc[r] = "svc_exit"
    /\ req[r].server = "fastapi" /\ req[r].ep = "tts"
    /\ Respond(r, IF exc[r] = NoExc THEN 200 ELSE 500)
    /\ UNCHANGED <<req, path, fs, log, exc, result, run, polls, frame, pdf, xf>>

\* text_to_speech of main.py: the same check, then the client call itself
MainTtsBegin(r) ==
    \E in \in TtsInputs :
      /\ Arrive(r, "main", "tts", in)
      /\ IF in.kind # "dict" \/ ~in.hasText
         THEN /\ Respond(r, 422)
              /\ frame' = frame
         ELSE IF Strip(in.text) = <<>>
         THEN /\ Respond(r, 400)
              /\ frame' = frame
         ELSE /\ frame' = [frame EXCEPT ![r].text_content = in.text]
              /\ pc' = [pc EXCEPT ![r] = "mt1"]
              /\ resp' = resp
      /\ UNCHANGED <<path, fs, log, exc, result, run, polls, pdf, xf>>

\* audio = _openai_client.audio.speech.create(...); return Response(...)
MainTtsCall(r) ==
    /\ pc[r] = "mt1"
    /\ \E ok \in BOOLEAN :
         /\ log' = [log EXCEPT ![r] = Append(@,
               Call("audio.speech.create", frame[r].text_content,
                    IF ok THEN <<"ok">> ELSE Raised))]
         /\ exc' = [exc EXCEPT ![r] = IF ok THEN @ ELSE <<"APIError">>]
         /\ result' = [result EXCEPT ![r] = IF ok THEN <<"audio">> ELSE @]
         /\ Respond(r, IF ok THEN 200 ELSE 500)
    /\ UNCHANGED <<req, path, fs, run, polls, frame, pdf, xf>>

\* ------------------------------------------------------- delete_assistant
DeleteInputs ==
    [assistant_id : {"a1"}, vector_store_id : {None, "", "vs1"}, file_id : {None, "", "f1"}]

\* client.beta.assistants.delete(assistant_id): its exception ends the function
Del_Assistant(r) ==
    /\ pc[r] = "del1"
    /\ SvcPlainCall(r, "assistants.delete", <<req[r].in.assistant_id>>, "del2")
    /\ UNCHANGED <<req, path, fs, resp, result, run, polls, frame, pdf, xf>>

\* Mutant of Del_VectorStore: the exception of the vector-store deletion is
\* not caught and ends delete_assistant.
Del_VectorStore_Propagates(r) ==
    /\ pc[r] = "del2"
    /\ IF Truthy(req[r].in.vector_store_id)
       THEN \E ok \in BOOLEAN :
              /\ log' = [log EXCEPT ![r] = Append(@,
                    Call("vector_stores.delete", <<req[r].in.vector_store_id>>,
                         IF ok THEN <<"ok">> ELSE Raised))]
              /\ exc' = [exc EXCEPT ![r] = IF ok THEN @ ELSE <<"APIError">>]
              /\ pc' = [pc EXCEPT ![r] = IF ok THEN "del3" ELSE "svc_exit"]
       ELSE /\ log' = log
            /\ exc' = exc
            /\ pc' = [pc EXCEPT ![r] = "del3"]
    /\ UNCHANGED <<req, path, fs, resp, result, run, polls, frame, pdf, xf>>

\* if vector_store_id: try: client.vector_stores.delete(...) except: print
Del_VectorStore(r) ==
    /\ pc[r] = "del2"
    /\ IF Truthy(req[r].in.vector_store_id)
       THEN \E ok \in BOOLEAN :
              log' = [log EXCEPT ![r] = Append(@,
                  Call("vector_stores.delete", <<req[r].in.vector_store_id>>,
                       IF ok THEN <<"ok">> ELSE Raised))]
       ELSE log' = log
    /\ pc' = [pc EXCEPT ![r] = "del3"]
    /\ UNCHANGED <<req, path, fs, exc, resp, result, run, polls, frame, pdf, xf>>

\* if file_id: try: client.files.delete(file_id) except: print
Del_File(r) ==
    /\ pc[r] = "del3"
    /\ IF Truthy(req[r].in.file_id)
       THEN \E ok \in BOOLEAN :
              log' = [log EXCEPT ![r] = Append(@,
                  Call("files.delete", <<req[r].in.file_id>>,
                       IF ok THEN <<"ok">> ELSE Raised))]
       ELSE log' = log
    /\ pc' = [pc EXCEPT ![r] = "svc_exit"]
    /\ UNCHANGED <<req, path, fs, exc, resp, result, run, polls, frame, pdf, xf>>

\* delete_assistant_endpoint of app.py
FlaskDeleteBegin(r) ==
    \E in \in DeleteInputs :
      /\ Arrive(r, "flask", "delete", in)
      /\ pc' = [pc EXCEPT ![r] = "del1"]
      /\ UNCHANGED <<path, fs, log, exc, resp, result, run, polls, frame, pdf, xf>>

FlaskDeleteReturn(r) ==
    /\ pc[r] = "svc_exit"
    /\ req[r].server = "flask" /\ req[r].ep = "delete"
    /\ Respond(r, IF exc[r] = NoExc THEN 200 ELSE 500)
    /\ UNCHANGED <<req, path, fs, log, exc, result, run, polls, frame, pdf, xf>>

\* delete_assistant of routers/assistant.py
ApiDeleteBegin(r) ==
    \E in \in DeleteInputs :
      /\ Arrive(r, "fastapi", "delete", in)
      /\ pc' = [pc EXCEPT ![r] = "del1"]
      /\ UNCHANGED <<path, fs, log, exc, resp, result, run, polls, frame, pdf, xf>>

ApiDeleteReturn(r) ==
    /\ pc[r] = "svc_exit"
    /\ req[r].server = "fastapi" /\ req[r].ep = "delete"
    /\ Respond(r, IF exc[r] = NoExc THEN 200 ELSE 500)
    /\ UNCHANGED <<req, path, fs, log, exc, result, run, polls, frame, pdf, xf>>

\* ------------------------------------- diacritic pass (routers/pdf.py, main.py)
\* Page text is a sequence of characters: a base letter, the space, Arabic
\* combining marks and the newline.
BASE == "h"
FATHA == "fatha"        \* U+064E, in the range 064B-065F
SHADDA == "shadda"      \* U+0651, in the range 064B-065F
\* the character class of _COMBINING_RE
MARKS == {FATHA, SHADDA}
Alphabet == {BASE, " ", FATHA, SHADDA, "\n"}

\* The last index of the run of characters of S that starts at i (i - 1 when
\* s[i] is not in S): a greedy `+`.
RECURSIVE RunEnd(_, _, _)
RunEnd(s, i, S) ==
    IF i <= Len(s) /\ s[i] \in S THEN RunEnd(s, i + 1, S) ELSE i - 1

\* Mutant of _COMBINING_RE: the pattern takes one space only (" " for " +").
_COMBINING_RE_OneSpace(s, i) ==
    LET k == RunEnd(s, i + 1, MARKS)
    IN  IF i <= Len(s) /\ s[i] = " " /\ k > i
        THEN [found |-> TRUE, end |-> k, group1 |-> SubSeq(s, i + 1, k)]
        ELSE [found |-> FALSE, end |-> i, group1 |-> <<>>]

\* _COMBINING_RE matched at position i of s: one or more spaces, then one or
\* more combining marks (group 1).  Both quantifiers are greedy; giving back
\* spaces cannot help, since what follows a shorter run is a space.
_COMBINING_RE(s, i) ==
    LET j == RunEnd(s, i, {" "})
        k == RunEnd(s, j + 1, MARKS)
    IN  IF j >= i /\ k > j
        THEN [found |-> TRUE, end |-> k, group1 |-> SubSeq(s, j + 1, k)]
        ELSE [found |-> FALSE, end |-> i, group1 |-> <<>>]

\* _COMBINING_RE.sub(r"\1", line): left to right, each match is replaced by
\* its group 1 and the scan goes on after the match; a character at which no
\* match starts is copied.
RECURSIVE SubFrom(_, _)
SubFrom(s, i) ==
    IF i > Len(s) THEN <<>>
    ELSE LET m == _COMBINING_RE(s, i)
         IN  IF m.found THEN m.group1 \o SubFrom(s, m.end + 1)
             ELSE <<s[i]>> \o SubFrom(s, i + 1)
_COMBINING_RE_sub(line) == SubFrom(line, 1)

\* str.splitlines(): the lines of s without their line ends; a final line
\* end opens no further line.
RECURSIVE splitlines(_)
splitlines(s) ==
    IF s = <<>> THEN <<>>
    ELSE IF \E n \in 1..Len(s) : s[n] = "\n"
    THEN LET n == CHOOSE n \in 1..Len(s) : s[n] = "\n" /\ \A q \in 1..(n - 1) : s[q] # "\n"
         IN  <<SubSeq(s, 1, n - 1)>> \o splitlines(SubSeq(s, n + 1, Len(s)))
    ELSE <<s>>

\* sep.join(xs)
RECURSIVE join(_, _)
join(sep, xs) ==
    IF xs = <<>> THEN <<>>
    ELSE IF Len(xs) = 1 THEN xs[1]
    ELSE xs[1] \o sep \o join(sep, Tail(xs))

\* line = _COMBINING_RE.sub(r"\1", line).strip()
CleanLine(line) == Strip(_COMBINING_RE_sub(line))

\* Mutant of _extract_page_text: `if line:` is left out, every line is kept.
_extract_page_text_KeepsBlank(raw) ==
    LET ls == splitlines(raw)
    IN  join(<<"\n">>, [i \in 1..Len(ls) |-> CleanLine(ls[i])])

\* _extract_page_text on the text page.get_text answered: each line cleaned,
\* the lines left empty dropped, the rest joined by "\n".
_extract_page_text(raw) ==
    LET ls == splitlines(raw)
    IN  join(<<"\n">>,
             SelectSeq([i \in 1..Len(ls) |-> CleanLine(ls[i])], LAMBDA l : l # <<>>))

\* ------------------------------------------ extract-pdf (routers/pdf.py, main.py)
PDF == <<"p", "d", "f">>
\* sub in s
Contains(s, sub) ==
    \E i \in 1..(Len(s) - Len(sub) + 1) : SubSeq(s, i, i + Len(sub) - 1) = sub

\* The content types an upload may declare.
ContentTypes == { <<>>,
                  <<"a", "/", "p", "d", "f">>,
                  <<"a", "/", "P", "D", "F">>,
                  <<"t", "/", "x">>,
                  <<"p", "d">> }
\* What page.get_text answers for the pages of the documents the requests
\* upload.
PageTexts ==
    { <<>>,
      << <<BASE, FATHA, " ", SHADDA>> >>,
      << <<BASE, " ", " ", SHADDA, "\n", " ", "\n", BASE>>, <<" ">>, <<BASE, " ", BASE>> >> }
\* An upload: no `file` part at all, or a part that may declare a content
\* type and whose bytes are a PDF with some pages or not a PDF.
PdfInputs ==
    {[hasFile |-> FALSE, hasType |-> FALSE, ctype |-> <<>>, valid |-> FALSE, pages |-> <<>>]}
    \cup
    {[hasFile |-> TRUE, hasType |-> FALSE, ctype |-> <<>>, valid |-> FALSE, pages |-> <<>>]}
    \cup
    {[hasFile |-> TRUE, hasType |-> FALSE, ctype |-> <<>>, valid |-> TRUE, pages |-> pg]
        : pg \in PageTexts} \cup
    {[hasFile |-> TRUE, hasType |-> TRUE, ctype |-> ct, valid |-> FALSE, pages |-> <<>>]
        : ct \in ContentTypes} \cup
    {[hasFile |-> TRUE, hasType |-> TRUE, ctype |-> ct, valid |-> TRUE, pages |-> pg]
        : ct \in ContentTypes, pg \in PageTexts}

\* Mutant of RejectedType: the test is inverted ("pdf" in ... for "pdf" not in).
RejectedType_Inverted(in) ==
    (in.hasType /\ in.ctype # <<>>) /\ Contains(LowerSeq(in.ctype), PDF)

\* if file.content_type and "pdf" not in file.content_type.lower():
RejectedType(in) ==
    (in.hasType /\ in.ctype # <<>>) /\ ~Contains(LowerSeq(in.ctype), PDF)

\* extract_pdf up to the content-type check; `file` is a required File(...)
\* (422 from the framework when the part is missing).
ExtractPdfBegin(r, server) ==
    \E in \in PdfInputs :
      /\ Arrive(r, server, "extract-pdf", in)
      /\ IF ~in.hasFile THEN Respond(r, 422)
         ELSE IF RejectedType(in) THEN Respond(r, 400)
         ELSE /\ pc' = [pc EXCEPT ![r] = "pdf_read"]
              /\ resp' = resp
      /\ UNCHANGED <<path, fs, log, exc, result, run, polls, frame, pdf, xf>>

\* extract_pdf of routers/pdf.py
ApiExtractPdfBegin(r) == ExtractPdfBegin(r, "fastapi")
\* extract_pdf of main.py
MainExtractPdfBegin(r) == ExtractPdfBegin(r, "main")

\* try: body = await file.read() / except Exception: 400
ExtractPdf_Read(r) ==
    /\ pc[r] = "pdf_read"
    /\ \E ok \in BOOLEAN :
         IF ok
         THEN /\ pdf' = [pdf EXCEPT ![r].read = TRUE]
              /\ pc' = [pc EXCEPT ![r] = "pdf_open"]
              /\ UNCHANGED <<resp, exc>>
         ELSE /\ exc' = [exc EXCEPT ![r] = <<"Failed to read file">>]
              /\ Respond(r, 400)
              /\ pdf' = pdf
    /\ UNCHANGED <<req, path, fs, log, result, run, polls, frame, xf>>

\* try: doc = fitz.open(stream=body, filetype="pdf") / except Exception: 400
ExtractPdf_Open(r) ==
    /\ pc[r] = "pdf_open"
    /\ IF req[r].in.valid
       THEN /\ pdf' = [pdf EXCEPT ![r].parsed = TRUE, ![r].doc = "open"]
            /\ pc' = [pc EXCEPT ![r] = "pdf_pages"]
            /\ UNCHANGED <<resp, exc>>
       ELSE /\ pdf' = [pdf EXCEPT ![r].parsed = TRUE]
            /\ exc' = [exc EXCEPT ![r] = <<"Invalid or corrupted PDF">>]
            /\ Respond(r, 400)
    /\ UNCHANGED <<req, path, fs, log, result, run, polls, frame, xf>>

\* for page in doc: parts.append(_extract_page_text(page)); an exception of
\* the library leaves the loop for the finally clause.
ExtractPdf_Page(r) ==
    /\ pc[r] = "pdf_pages"
    /\ Len(pdf[r].parts) < Len(req[r].in.pages)
    /\ \E ok \in BOOLEAN :
         IF ok
         THEN /\ pdf' = [pdf EXCEPT ![r].parts =
                     Append(@, _extract_page_text(req[r].in.pages[Len(@) + 1]))]
              /\ UNCHANGED <<pc, exc>>
         ELSE /\ exc' = [exc EXCEPT ![r] = <<"RuntimeError">>]
              /\ pc' = [pc EXCEPT ![r] = "pdf_close"]
              /\ pdf' = pdf
    /\ UNCHANGED <<req, path, fs, log, resp, result, run, polls, frame, xf>>

\* the loop has ended: text = "\n\n".join(parts).strip()
ExtractPdf_Join(r) ==
    /\ pc[r] = "pdf_pages"
    /\ Len(pdf[r].parts) = Len(req[r].in.pages)
    /\ result' = [result EXCEPT ![r] = Strip(join(<<"\n", "\n">>, pdf[r].parts))]
    /\ pc' = [pc EXCEPT ![r] = "pdf_close"]
    /\ UNCHANGED <<req, path, fs, log, exc, resp, run, polls, frame, pdf, xf>>

\* finally: doc.close(); return {"text": text} (an exception propagates: 500)
ExtractPdf_Close(r) ==
    /\ pc[r] = "pdf_close"
    /\ pdf' = [pdf EXCEPT ![r].doc = "closed"]
    /\ Respond(r, IF exc[r] = NoExc THEN 200 ELSE 500)
    /\ UNCHANGED <<req, path, fs, log, exc, result, run, polls, frame, xf>>

\* The page texts the diacritic pass is tried on: every text of at most MaxLen
\* characters.
RawTexts == UNION {[1..n -> Alphabet] : n \in 0..MaxLen}

\* _extract_page_text applied to a page text ...
ApplyOnce ==
    /\ xf.phase = "raw"
    /\ xf' = [xf EXCEPT !.phase = "once", !.once = _extract_page_text(xf.raw)]
    /\ UNCHANGED <<pc, req, path, fs, log, exc, resp, result, run, polls, frame, pdf>>

\* ... and applied again to the text it returned.
ApplyTwice ==
    /\ xf.phase = "once"
    /\ xf' = [xf EXCEPT !.phase = "twice", !.twice = _extract_page_text(xf.once)]
    /\ UNCHANGED <<pc, req, path, fs, log, exc, resp, result, run, polls, frame, pdf>>

\* ---------------------------------------------------------- specification
UploadStep(r) ==
    \/ FlaskTranscribeBegin(r) \/ FlaskTranscribeCall(r) \/ FlaskTranscribeExists(r)
    \/ FlaskTranscribeUnlink(r) \/ FlaskTranscribeReturn(r)
    \/ ApiTranscribeBegin(r) \/ ApiTranscribeCall(r) \/ ApiTranscribeExists(r)
    \/ ApiTranscribeUnlink(r) \/ ApiTranscribeReturn(r)
    \/ FlaskCreateBegin(r) \/ FlaskCreateAfterService(r) \/ FlaskCreateUnlink(r)
    \/ FlaskCreateReturn(r)
    \/ ApiCreateBegin(r) \/ ApiCreateExists(r) \/ ApiCreateUnlink(r) \/ ApiCreateReturn(r)
    \/ Svc_CreateAssistant(r) \/ Svc_UploadFile(r) \/ Svc_CreateVectorStore(r)
    \/ Svc_AttachFile(r) \/ Svc_UpdateAssistant(r) \/ Svc_CreateThread(r)

ChatStep(r) ==
    \/ FlaskChatBegin(r) \/ FlaskChatReturn(r) \/ ApiChatBegin(r) \/ ApiChatReturn(r)
    \/ SM_AddMessage(r) \/ SM_CreateRun(r) \/ SM_Poll(r) \/ SM_CheckStatus(r)
    \/ SM_ListMessages(r)

TtsStep(r) ==
    \/ FlaskTtsBegin(r) \/ FlaskTtsReturn(r) \/ ApiTtsBegin(r) \/ ApiTtsReturn(r)
    \/ MainTtsBegin(r) \/ MainTtsCall(r) \/ synthesize_speech(r)

DeleteStep(r) ==
    \/ FlaskDeleteBegin(r) \/ FlaskDeleteReturn(r) \/ ApiDeleteBegin(r)
    \/ ApiDeleteReturn(r) \/ Del_Assistant(r) \/ Del_VectorStore(r) \/ Del_File(r)

PdfStep(r) ==
    \/ ApiExtractPdfBegin(r) \/ MainExtractPdfBegin(r) \/ ExtractPdf_Read(r)
    \/ ExtractPdf_Open(r) \/ ExtractPdf_Page(r) \/ ExtractPdf_Join(r)
    \/ ExtractPdf_Close(r)

Step(r) == UploadStep(r) \/ ChatStep(r) \/ TtsStep(r) \/ DeleteStep(r) \/ PdfStep(r)

\* Requests are served concurrently.
Next == \E r \in Req : Step(r)
Spec == Init /\ [][Next]_vars

\* The upload handlers (transcribe, assistant/create), served concurrently.
UploadNext == \E r \in Req : UploadStep(r)
UploadSpec == Init /\ [][UploadNext]_vars

\* One request, served alone.
SoloNext == Step(1)
SoloSpec == Init /\ [][SoloNext]_vars

\* The diacritic pass alone, on every page text within the bound.
TransformInit ==
    /\ InitRequests
    /\ xf \in {[phase |-> "raw", raw |-> t, once |-> <<>>, twice |-> <<>>] : t \in RawTexts}
TransformNext == ApplyOnce \/ ApplyTwice
TransformSpec == TransformInit /\ [][TransformNext]_vars

\* One request served alone whose handler keeps running: a step that is
\* possible is eventually taken (every remote call answers or raises).
SoloFairSpec == SoloSpec /\ WF_vars(SoloNext)

\* ==================================================================== claims
Returned(r, ep) == pc[r] = "done" /\ req[r].ep = ep
Ops(r) == [i \in 1..Len(log[r]) |-> log[r][i].op]

\* The step in which the handler of r returns.
ReturnsNow(r, ep) == pc[r] # "done" /\ pc'[r] = "done" /\ req'[r].ep = ep

\* C1 (as claimed): every transcribe request that wrote the uploaded audio to
\* a temporary path finds that path gone at the moment its handler returns,
\* whether the remote transcription call succeeded or raised (Flask handler
\* and FastAPI router).
C1_TranscribeTempGone ==
    [][\A r \in Req :
         (ReturnsNow(r, "transcribe") /\ path[r] # NoPath) => ~Exists(fs', path[r])]_vars

\* C2 (as claimed): every assistant-create request that wrote an uploaded file
\* to disk has deleted it when the handler returns, on every exit path.
C2_CreateUploadDeleted ==
    \A r \in Req :
      (Returned(r, "create") /\ path[r] # NoPath) => ~Exists(fs, path[r])

\* C3 (as claimed): a temporary upload file belongs to the request that wrote
\* it: while the request still needs it the file is there with the request's
\* own bytes, and every remote call gets the bytes its own request uploaded.
HoldsUpload(r) ==
    /\ path[r] # NoPath
    /\ pc[r] \in {"ft_call", "at_call", "svc1", "svc2"}
C3_UploadScopedToRequest ==
    \A r \in Req :
      /\ HoldsUpload(r) => (Exists(fs, path[r]) /\ Read(fs, path[r]) = FileBytes(r))
      /\ \A i \in 1..Len(log[r]) :
           log[r][i].op \in {"files.create", "audio.transcriptions.create"}
             => log[r][i].arg \in {FileBytes(r), TextBytes(r)}

\* C4 (as claimed): a chat/message request with thread_id, assistant_id or
\* message empty or absent, or whose body is missing or no JSON object, issues
\* no remote call and is answered 400.
MissingChatField(in) ==
    \/ in.kind # "dict"
    \/ ~Truthy(in.thread_id) \/ ~Truthy(in.assistant_id) \/ ~Truthy(in.message)
C4_ChatMissingField400 ==
    \A r \in Req :
      (req[r].ep = "chat" /\ MissingChatField(req[r].in))
        => (log[r] = <<>> /\ (pc[r] = "done" => resp[r] = 400))

\* C5: a tts request whose text is empty or whitespace-only is answered 400
\* and issues no speech-synthesis call; a request whose text is not blank
\* issues that call exactly once.
Blank(t) == \A i \in 1..Len(t) : t[i] \in WS
C5_TtsBlankRejected ==
    \A r \in Req :
      (req[r].ep = "tts" /\ req[r].in.kind = "dict" /\ req[r].in.hasText) =>
        IF Blank(req[r].in.text)
        THEN log[r] = <<>> /\ (pc[r] = "done" => resp[r] = 400)
        ELSE /\ Len(log[r]) <= 1
             /\ pc[r] = "done" =>
                  (Len(log[r]) = 1 /\ log[r][1].op = "audio.speech.create" /\ resp[r] # 400)

\* C5 witness: a request whose text is whitespace only has been answered 400.
C5_Witness ==
    \E r \in Req :
      /\ Returned(r, "tts") /\ req[r].in.hasText
      /\ req[r].in.text = <<" ", "\n">>
      /\ resp[r] = 400 /\ log[r] = <<>>

\* C6: delete_assistant always attempts the assistant deletion, first; the
\* operation fails exactly when that call fails; a failing vector-store or
\* file deletion is swallowed, the deletions after it are still attempted and
\* the operation succeeds.
HasOp(r, op) == \E i \in 1..Len(log[r]) : log[r][i].op = op
C6_DeleteBestEffort ==
    \A r \in Req :
      req[r].ep = "delete" =>
        /\ pc[r] \notin {"idle", "del1"} =>
             (Len(log[r]) >= 1 /\ log[r][1].op = "assistants.delete")
        /\ pc[r] = "done" =>
             /\ resp[r] = (IF log[r][1].ret = Raised THEN 500 ELSE 200)
             /\ log[r][1].ret = Raised => Len(log[r]) = 1
             /\ log[r][1].ret # Raised =>
                  /\ Truthy(req[r].in.vector_store_id) <=> HasOp(r, "vector_stores.delete")
                  /\ Truthy(req[r].in.file_id) <=> HasOp(r, "files.delete")

\* C6 witness: the vector-store deletion raised, the file deletion was still
\* attempted and the request was answered 200.
C6_Witness ==
    \E r \in Req :
      /\ Returned(r, "delete") /\ resp[r] = 200
      /\ Len(log[r]) = 3
      /\ log[r][2].op = "vector_stores.delete" /\ log[r][2].ret = Raised
      /\ log[r][3].op = "files.delete"

\* C7: send_message appends the user message, then starts a run, then re-reads
\* the run status while it is "queued" or "in_progress"; it lists the thread's
\* messages and returns a response only after a status "completed", and when
\* the first status outside the two is not "completed" it raises an error
\* naming that status and returns no response.
IsStatusCall(c) == c.op \in {"runs.create", "runs.retrieve"} /\ c.ret # Raised
C7_SendMessageOrder ==
    \A r \in Req :
      req[r].ep = "chat" =>
        /\ \A i \in 1..Len(log[r]) :
             /\ i = 1 => log[r][i].op = "messages.create"
             /\ i = 2 => log[r][i].op = "runs.create"
             /\ i >= 3 => log[r][i].op \in {"runs.retrieve", "messages.list"}
             /\ log[r][i].op = "runs.retrieve" =>
                  (IsStatusCall(log[r][i-1]) /\ log[r][i-1].ret[1] \in Pending)
             /\ log[r][i].op = "messages.list" =>
                  (i = Len(log[r]) /\ log[r][i-1].ret = <<"completed">>)
             /\ (IsStatusCall(log[r][i]) /\ log[r][i].ret[1] \notin Pending \cup {"completed"}) =>
                  /\ i = Len(log[r])
                  /\ result[r] = NoResult
                  /\ pc[r] \in {"svc_exit", "done"} =>
                       exc[r] = <<"Run failed with status: ", log[r][i].ret[1]>>
                  /\ pc[r] = "done" => resp[r] = 500
        /\ result[r] # NoResult =>
             (log[r][Len(log[r])].op = "messages.list" /\ run[r] = "completed")

\* C7 witness: after a poll the run was seen "failed"; the request ended 500
\* with the error naming that status and without listing messages.
C7_Witness ==
    \E r \in Req :
      /\ Returned(r, "chat") /\ resp[r] = 500
      /\ Len(log[r]) = 3 /\ log[r][2].ret = <<"queued">>
      /\ log[r][3].op = "runs.retrieve" /\ log[r][3].ret = <<"failed">>
      /\ exc[r] = <<"Run failed with status: ", "failed">>

\* C8 (as claimed): when an assistant/create request holds both an accepted
\* uploaded file and a text field, what is uploaded to the remote API is that
\* file's content, and the text is not used.
C8_PdfTakesPrecedence ==
    \A r \in Req :
      (req[r].ep = "create" /\ req[r].in.hasPdf /\ Truthy(req[r].in.text)) =>
        /\ frame[r].text_content = None
        /\ \A i \in 1..Len(log[r]) :
             log[r][i].op = "files.create" => log[r][i].arg = FileBytes(r)

\* C9 (as claimed): assistant/create without a knowledge source, or with an
\* uploaded file whose extension is neither pdf nor txt, issues no remote call
\* and is answered 400.
NoSource(in) == ~in.hasPdf /\ ~Truthy(in.text)
BadDocExtension(in) == in.hasPdf /\ _extension(in.fname) \notin {EXT_pdf, EXT_txt}
C9_CreateRejected400 ==
    \A r \in Req :
      (req[r].ep = "create" /\ (NoSource(req[r].in) \/ BadDocExtension(req[r].in)))
        => (log[r] = <<>> /\ (pc[r] = "done" => resp[r] = 400))

\* C10: a create_assistant_with_file that returns has issued exactly these
\* remote calls, in this order: create assistant, upload file, create vector
\* store, attach the file to that store, bind that store to the assistant,
\* create thread; the four ids it returns are the ids those calls answered.
CreateOrder ==
    <<"assistants.create", "files.create", "vector_stores.create",
      "vector_stores.files.create", "assistants.update", "threads.create">>
C10_CreateCallOrder ==
    \A r \in Req :
      (req[r].ep = "create" /\ result[r] # NoResult) =>
        /\ Ops(r) = CreateOrder
        /\ \A i \in 1..6 : log[r][i].ret # Raised
        /\ log[r][4].arg = <<log[r][3].ret, log[r][2].ret>>
        /\ log[r][5].arg = <<log[r][1].ret, log[r][3].ret>>
        /\ result[r] = [assistant_id |-> log[r][1].ret, thread_id |-> log[r][6].ret,
                        vector_store_id |-> log[r][3].ret, file_id |-> log[r][2].ret]
        /\ Cardinality({log[r][1].ret, log[r][2].ret, log[r][3].ret, log[r][6].ret}) = 4

\* C10 witness: an assistant/create request has been answered 201 with the
\* four ids.
C10_Witness ==
    \E r \in Req :
      /\ Returned(r, "create") /\ resp[r] = 201
      /\ result[r] # NoResult /\ Len(log[r]) = 6

\* The upload declares a content type, and it does not hold "pdf" in any
\* letter case.
DeclaresNonPdf(in) ==
    in.hasFile /\ in.hasType /\ in.ctype # <<>>
    /\ \A i \in 1..(Len(in.ctype) - 2) :
         ~(/\ in.ctype[i] \in {"p", "P"}
           /\ in.ctype[i + 1] \in {"d", "D"}
           /\ in.ctype[i + 2] \in {"f", "F"})
\* The upload declares no content type (none, or an empty one).
DeclaresNoType(in) == in.hasFile /\ (~in.hasType \/ in.ctype = <<>>)
NotReadNorParsed400(r) ==
    /\ ~pdf[r].read /\ ~pdf[r].parsed
    /\ pc[r] = "done" => resp[r] = 400

\* C11 (as claimed): an extract-pdf request whose upload is not of a PDF
\* content type, uploads that declare no content type included, is answered
\* 400 and its body is neither read nor parsed.
C11_NonPdfRejectedUnread ==
    \A r \in Req :
      (req[r].ep = "extract-pdf"
         /\ (DeclaresNonPdf(req[r].in) \/ DeclaresNoType(req[r].in)))
        => NotReadNorParsed400(r)

\* C11 (amended): an extract-pdf request whose upload declares a content type
\* that does not hold "pdf" is answered 400 and its body is neither read nor
\* parsed; an upload that declares no content type is not rejected for its
\* type: unless reading fails, its body is read and handed to the parser.
C11_DeclaredNonPdfRejected ==
    \A r \in Req :
      req[r].ep = "extract-pdf" =>
        /\ DeclaresNonPdf(req[r].in) => NotReadNorParsed400(r)
        /\ (DeclaresNoType(req[r].in) /\ pc[r] = "done") =>
             \/ pdf[r].read /\ pdf[r].parsed
             \/ ~pdf[r].read /\ exc[r] = <<"Failed to read file">>

\* C11 witness: an upload of PDF bytes declared "t/x" has been answered 400
\* with its body unread.
C11_Witness ==
    \E r \in Req :
      /\ Returned(r, "extract-pdf")
      /\ req[r].in.ctype = <<"t", "/", "x">> /\ req[r].in.valid
      /\ resp[r] = 400 /\ ~pdf[r].read /\ ~pdf[r].parsed

\* C12: the diacritic pass is idempotent: applied to the text it returned, it
\* returns that text again, for every page text of base letters, spaces,
\* combining marks and newlines.
C12_TransformIdempotent ==
    xf.phase = "twice" => xf.twice = xf.once

\* C12 witness: the pass changed a text (two spaces before a mark, a final
\* newline) and was applied a second time.
C12_Witness ==
    /\ xf.phase = "twice"
    /\ xf.raw = <<BASE, " ", " ", SHADDA, "\n">>
    /\ xf.once = <<BASE, SHADDA>>

\* Position i of line is a space of a run of spaces that a combining mark follows.
SpaceBeforeMark(line, i) ==
    /\ line[i] = " "
    /\ \E j \in (i + 1)..Len(line) :
         line[j] \in MARKS /\ \A q \in (i + 1)..(j - 1) : line[q] = " "
\* line without those spaces, every other character in its place.
KeptIdx(line) == {i \in 1..Len(line) : ~SpaceBeforeMark(line, i)}
WithoutSpacesBeforeMarks(line) ==
    [k \in 1..Cardinality(KeptIdx(line)) |->
        line[CHOOSE i \in KeptIdx(line) : Cardinality({j \in KeptIdx(line) : j <= i}) = k]]
\* text has a line (between two line ends or the ends of the text) that is
\* empty or holds spaces only.
HasBlankLine(text) ==
    /\ text # <<>>
    /\ \E i \in 1..(Len(text) + 1) : \E j \in (i - 1)..Len(text) :
         /\ i = 1 \/ text[i - 1] = "\n"
         /\ j = Len(text) \/ text[j + 1] = "\n"
         /\ \A q \in i..j : text[q] \in {" ", "\t"}
HasSpaceBeforeMark(text) ==
    \E i \in 1..(Len(text) - 1) : text[i] = " " /\ text[i + 1] \in MARKS

\* C13: on every line the substitution replaces each run of spaces that
\* combining marks follow by just those marks and leaves every other character
\* in order (base letter, space, mark becomes base letter, mark), and the text
\* _extract_page_text returns has no blank line and no space immediately
\* followed by a combining mark.
C13_TransformSemantics ==
    xf.phase \in {"once", "twice"} =>
      /\ \A n \in 1..Len(splitlines(xf.raw)) :
           LET line == splitlines(xf.raw)[n]
           IN  _COMBINING_RE_sub(line) = WithoutSpacesBeforeMarks(line)
      /\ xf.raw = <<BASE, FATHA, " ", SHADDA>> => xf.once = <<BASE, FATHA, SHADDA>>
      /\ ~HasBlankLine(xf.once)
      /\ ~HasSpaceBeforeMark(xf.once)

\* C13 witness: the line "base letter, mark, space, mark" has been through the
\* pass and the second mark sits on the letter.
C13_Witness ==
    /\ xf.phase = "once"
    /\ xf.raw = <<BASE, FATHA, " ", SHADDA>>
    /\ xf.once = <<BASE, FATHA, SHADDA>>

\* The deletions delete_assistant attempts on a best-effort basis.
BestEffortOps == {"vector_stores.delete", "files.delete"}

\* C14: a remote call that raised is not issued again; unless it is one of
\* delete_assistant's best-effort deletions, it is the last remote call of its
\* request, the exception is in flight and the request is answered with an
\* error (500).
C14_NoRetryAfterFailure ==
    \A r \in Req : \A i \in 1..Len(log[r]) :
      log[r][i].ret = Raised =>
        /\ \A j \in (i + 1)..Len(log[r]) : log[r][j].op # log[r][i].op
        /\ log[r][i].op \notin BestEffortOps =>
             /\ i = Len(log[r])
             /\ exc[r] # NoExc
             /\ pc[r] = "done" => resp[r] = 500

\* C14 witness: in an assistant/create request the attachment of the file to
\* the vector store raised; the request was answered 500 after that call.
C14_Witness ==
    \E r \in Req :
      /\ Returned(r, "create") /\ resp[r] = 500
      /\ Len(log[r]) = 4
      /\ log[r][4].op = "vector_stores.files.create" /\ log[r][4].ret = Raised

\* send_message of r has observed a run status outside "queued"/"in_progress".
ObservedFinal(r) ==
    \E i \in 1..Len(log[r]) : IsStatusCall(log[r][i]) /\ log[r][i].ret[1] \notin Pending
LastCallRaised(r) == log[r] # <<>> /\ log[r][Len(log[r])].ret = Raised
InPollLoop(r) == req[r].ep = "chat" /\ pc[r] = "sm3" /\ run[r] \in Pending

\* C15: the poll loop of send_message has no ceiling or timeout: while the run
\* is "queued" or "in_progress" the only way out of the loop is a status read
\* that raises; a chat request whose run was started has returned only if a
\* status outside the two was observed or a remote call raised; and once such
\* a status is observed, or a call raised, the request does return.  (A run
\* that stays pending leaves the request in the loop for ever; MaxPolls only
\* bounds how many reads the model follows.)
C15_PollLoopUnbounded ==
    /\ [][\A r \in Req :
            (InPollLoop(r) /\ ~InPollLoop(r)') =>
              \/ pc'[r] = "sm3" /\ run'[r] \notin Pending
              \/ pc'[r] = "svc_exit" /\ LastCallRaised(r)']_vars
    /\ [](\A r \in Req :
            (Returned(r, "chat") /\ Len(log[r]) >= 2 /\ log[r][2].ret # Raised) =>
              (ObservedFinal(r) \/ LastCallRaised(r)))
    /\ \A r \in Req :
         (req[r].ep = "chat" /\ (ObservedFinal(r) \/ LastCallRaised(r))) ~> (pc[r] = "done")

\* C15 witness: after MaxPolls status reads that all answered a pending
\* status the request is still in the loop.
C15_Witness ==
    \E r \in Req :
      /\ InPollLoop(r)
      /\ polls[r] >= 2
      /\ \A i \in 2..Len(log[r]) : log[r][i].ret[1] \in Pending
====
